---- MODULE Spec2Model ----
(***************************************************************************)
(* IRBlaupunktLogger: an ESP32 firmware that turns decoded IR remote codes *)
(* into timestamped Premiere "insertClip" lines, appended to a session log *)
(* in SPIFFS and echoed on the serial control channel.                     *)
(*                                                                         *)
(* The repository holds three variants of the same sketch:                 *)
(*   variant 1  src/src/main.cpp lines 1-412   named session, ended by the *)
(*              power code 33                                              *)
(*   variant 2  src/src/main.cpp lines 414-795 single-button variant: the  *)
(*              power code toggles the session                             *)
(*   variant 3  src/unnamed/part_000           named session, ended by the *)
(*              serial line "end"; adds a BLE pairing mode                 *)
(* and two repeat-detection strategies selected by the preprocessor        *)
(* (#ifdef IRDATA_FLAGS_IS_REPEAT): the library repeat flag, or the 700 ms *)
(* same-button heuristic.  Both are build-time choices, fixed by Init.     *)
(*                                                                         *)
(* Time is millis(), in milliseconds, advancing in steps of PollDelayMs   *)
(* (every delay and every threshold of the code is a multiple of 100 ms,   *)
(* except the 10 ms pause at the end of variant 3's loop, which is below   *)
(* the resolution).                                                        *)
(* Strings that the code parses (serial lines, file names) are sequences   *)
(* of one-character strings; button names are TLA+ strings.                *)
(***************************************************************************)
EXTENDS Integers, Sequences, FiniteSets, TLC

(***************************************************************************)
(* Bounds of the model.                                                    *)
(***************************************************************************)
MaxTicks == 100
MaxFrames == 2
MaxSessions == 1
MaxPresses == 4

(***************************************************************************)
(* Program constants.                                                      *)
(***************************************************************************)
holdThreshold == 700
TrackGapMs == 1000
GraceMs == 3000
FrameDelayMs == 500
PollDelayMs == 100
MaxFiles == 50
PowerCode == 33

\* The last value of millis() the model lets the clock reach.
MaxTime == MaxTicks * PollDelayMs

\* unsigned long arithmetic, 32 bits on the ESP32, for a difference x of two
\* clock readings: a negative difference wraps to x + 2^32, which is above
\* every threshold the code compares with (TLC's integers stop at 2^31 - 1,
\* which stands for the wrapped value).
UL(x) == IF x >= 0 THEN x ELSE 2147483647

(***************************************************************************)
(* Arduino String operations used by the code.                             *)
(***************************************************************************)
RECURSIVE LTrim(_)
LTrim(s) == IF s # <<>> /\ Head(s) = " " THEN LTrim(Tail(s)) ELSE s

RECURSIVE RTrim(_)
RTrim(s) ==
  IF s # <<>> /\ s[Len(s)] = " " THEN RTrim(SubSeq(s, 1, Len(s) - 1)) ELSE s

\* String::trim(): strips leading and trailing whitespace.
Trim(s) == RTrim(LTrim(s))

\* tolower() on the letters of the input alphabet; other characters are kept.
LowerChar(c) ==
  CASE c = "M" -> "m" [] c = "E" -> "e" [] c = "N" -> "n" [] c = "U" -> "u"
    [] c = "Y" -> "y" [] c = "D" -> "d" [] c = "A" -> "a"
    [] c = "L" -> "l" [] c = "I" -> "i" [] c = "S" -> "s" [] c = "T" -> "t"
    [] c = "B" -> "b"
    [] OTHER -> c

ToLower(s) == [i \in 1..Len(s) |-> LowerChar(s[i])]

\* String::equalsIgnoreCase.
EqualsIgnoreCase(s, t) == ToLower(s) = ToLower(t)

\* String::charAt: 0 (here the empty string "") when the index is out of range.
CharAt(s, i) == IF i + 1 \in 1..Len(s) THEN s[i + 1] ELSE ""

\* String::startsWith.
StartsWith(s, p) == Len(s) >= Len(p) /\ SubSeq(s, 1, Len(p)) = p

\* String::substring(from).
Substring(s, from) == SubSeq(s, from + 1, Len(s))

\* String(n) for a non-negative integer: its decimal digits.
RECURSIVE DecStr(_)
DecStr(n) ==
  LET d == <<"0", "1", "2", "3", "4", "5", "6", "7", "8", "9">>
  IN IF n < 10 THEN <<d[n + 1]>> ELSE DecStr(n \div 10) \o <<d[(n % 10) + 1]>>

DigitVal(c) ==
  CASE c = "0" -> 0 [] c = "1" -> 1 [] c = "2" -> 2 [] c = "3" -> 3
    [] c = "4" -> 4 [] c = "5" -> 5 [] c = "6" -> 6 [] c = "7" -> 7
    [] c = "8" -> 8 [] c = "9" -> 9 [] OTHER -> -1

\* String::toInt(): the leading decimal digits, 0 when there are none.
RECURSIVE ToIntAcc(_, _)
ToIntAcc(s, acc) ==
  IF s = <<>> \/ DigitVal(Head(s)) < 0 THEN acc
  ELSE ToIntAcc(Tail(s), acc * 10 + DigitVal(Head(s)))

ToInt(s) == ToIntAcc(LTrim(s), 0)

MenuStr == <<"m", "e", "n", "u">>
EndStr == <<"e", "n", "d">>
YStr == <<"y">>
TxtStr == <<".", "t", "x", "t">>
DefaultLogBase ==
  <<"/", "p", "r", "e", "m", "i", "e", "r", "e", "_", "l", "o", "g">>

(***************************************************************************)
(* State.                                                                  *)
(***************************************************************************)
VARIABLES
  variant,             \* 1, 2 or 3: which sketch is built
  useRepeatFlag,       \* TRUE: IRDATA_FLAGS_IS_REPEAT is defined
  pc,                  \* where the single thread of control waits
  now,                 \* millis()
  timestampStart,
  lastButton,
  lastButtonTimestamp,
  holdLogged,
  currentFileName,
  sessionActive,
  awaitingSessionName,
  currentMode,         \* 1 IR, 2 file management, 3 BLE, 0 menu (variant 3);
                       \* variants 1 and 2 hold it as irMode: 1 true, 2 false
  fileList,
  fileCount,
  logFileBase,
  lastClipTime,
  currentTrackIndex,
  actionCount,         \* variant 2
  startTime,           \* the grace window's captured start tick
  prefs,               \* Preferences: the durable key/value entries
  files,               \* SPIFFS: sequence of [name, content], in creation order
  io,                  \* what the last step read and wrote, in order
  irLast,              \* last command the IR receiver decoded (0: none)
  idleSince,           \* ms since the receiver was last resumed, saturating
  trace,               \* the known-button inputs handleButtonPress processed so
                       \* far, each with what became of it
  nFrames,             \* IR frames decoded so far
  nSessions,           \* sessions started so far
  pending              \* Serial's receive buffer: the line typed while no
                       \* code was reading (<<>>: empty)

vars ==
  <<variant, useRepeatFlag, pc, now, timestampStart, lastButton,
    lastButtonTimestamp, holdLogged, currentFileName, sessionActive,
    awaitingSessionName, currentMode, fileList, fileCount, logFileBase,
    lastClipTime, currentTrackIndex, actionCount, startTime, prefs, files, io,
    irLast, idleSince, trace, nFrames, nSessions, pending>>

irMode == currentMode = 1

(***************************************************************************)
(* SPIFFS.                                                                 *)
(***************************************************************************)
FileNames(fs) == {fs[i].name : i \in 1..Len(fs)}

Exists(fs, name) == name \in FileNames(fs)

Content(fs, name) ==
  LET i == CHOOSE i \in 1..Len(fs) : fs[i].name = name IN fs[i].content

\* An append that truncates the file first.
OverwriteLine(fs, name, line) ==
  IF Exists(fs, name)
    THEN [i \in 1..Len(fs) |->
            IF fs[i].name = name
              THEN [fs[i] EXCEPT !.content = <<line>>]
              ELSE fs[i]]
    ELSE Append(fs, [name |-> name, content |-> <<line>>])

\* SPIFFS.open(name, FILE_APPEND) + file.println(line) + file.close().
AppendLine(fs, name, line) ==
  IF Exists(fs, name)
    THEN [i \in 1..Len(fs) |->
            IF fs[i].name = name
              THEN [fs[i] EXCEPT !.content = Append(@, line)]
              ELSE fs[i]]
    ELSE Append(fs, [name |-> name, content |-> <<line>>])

\* A remove that leaves the storage as it is.
RemoveNothing(fs, name) == fs

\* SPIFFS.remove(name): TRUE exactly when the file existed.
RemoveFile(fs, name) == SelectSeq(fs, LAMBDA f : f.name # name)

\* File::name(): the part of the path after its last '/'.
RECURSIVE BaseName(_)
BaseName(path) ==
  IF \E i \in 1..Len(path) : path[i] = "/"
    THEN BaseName(Tail(path))
    ELSE path

\* deleteAllFiles: for each directory entry, SPIFFS.remove("/" + file.name()).
RECURSIVE DeleteEntries(_, _)
DeleteEntries(fs, entries) ==
  IF entries = <<>> THEN fs
  ELSE DeleteEntries(RemoveFile(fs, <<"/">> \o BaseName(Head(entries).name)),
                     Tail(entries))

DeleteAllFiles(fs) == DeleteEntries(fs, fs)

(***************************************************************************)
(* What a step reads and writes.                                           *)
(***************************************************************************)
Echo(line) == [op |-> "echo", arg |-> line]
Msg(text) == [op |-> "msg", arg |-> text]
Wrote(name, line) == [op |-> "append", arg |-> <<name, line>>]
Removed(name) == [op |-> "remove", arg |-> name]
Read(line) == [op |-> "read", arg |-> line]
Frame(cmd, rep) == [op |-> "frame", arg |-> <<cmd, rep>>]
\* Serial.println(command): the raw code, printed by variant 2.
Number(cmd) == [op |-> "number", arg |-> cmd]


(***************************************************************************)
(* Button classifier, hold detector, track allocator, script emitter.      *)
(***************************************************************************)
\* A switch whose default branch names a button.
ButtonNameDefaultOk(cmd) ==
  CASE cmd = 25 -> "ok" [] cmd = 24 -> "right" [] cmd = 22 -> "down"
    [] cmd = 23 -> "left" [] cmd = 21 -> "up" [] cmd = 71 -> "home"
    [] cmd = 16 -> "settings" [] cmd = 72 -> "back" [] cmd = 50 -> "tv"
    [] OTHER -> "ok"

\* The switch of handleButtonPress, variants 1 and 3 ("" for an unknown code).
ButtonName(cmd) ==
  CASE cmd = 25 -> "ok" [] cmd = 24 -> "right" [] cmd = 22 -> "down"
    [] cmd = 23 -> "left" [] cmd = 21 -> "up" [] cmd = 71 -> "home"
    [] cmd = 16 -> "settings" [] cmd = 72 -> "back" [] cmd = 50 -> "tv"
    [] OTHER -> ""

\* The switch of variant 2, which also names the power code.
ButtonName2(cmd) == IF cmd = PowerCode THEN "power" ELSE ButtonName(cmd)

NameOf(cmd) == IF variant = 2 THEN ButtonName2(cmd) ELSE ButtonName(cmd)

\* A heuristic that forgets to compare the button with the last one.
IsRepeatAnyButton(buttonName, rep) ==
  IF useRepeatFlag
    THEN rep
    ELSE UL(now - lastButtonTimestamp) < holdThreshold

\* isRepeat: the library flag of the decoded frame, or the heuristic.
IsRepeat(buttonName, rep) ==
  IF useRepeatFlag
    THEN rep
    ELSE buttonName = lastButton
         /\ UL(now - lastButtonTimestamp) < holdThreshold

\* A hold detector that treats "power" as every other button in variant 2.
HoldNameAnyButton(buttonName, rep) ==
  IF IsRepeat(buttonName, rep)
    THEN IF ~holdLogged THEN buttonName \o "_hold" ELSE ""
    ELSE buttonName

\* The hold detector's verdict on a known button: the name to log, or "" when
\* the input is suppressed.  Variant 2 never suffixes nor suppresses "power".
HoldName(buttonName, rep) ==
  IF IsRepeat(buttonName, rep)
    THEN IF variant = 2 /\ buttonName = "power" THEN buttonName
         ELSE IF ~holdLogged THEN buttonName \o "_hold" ELSE ""
    ELSE buttonName

HoldLoggedAfter(buttonName, rep) ==
  IF IsRepeat(buttonName, rep)
    THEN IF variant = 2 /\ buttonName = "power" THEN holdLogged ELSE TRUE
    ELSE FALSE

\* An allocator that also takes a gap of exactly 1000 ms for a burst.
NextTrackLe(clipTime) ==
  IF UL(clipTime - lastClipTime) <= TrackGapMs
    THEN currentTrackIndex + 1
    ELSE 1

\* An allocator that measures the gap from the last processed input of the
\* session, suppressed or not.
NextTrackSinceInput(clipTime) ==
  LET last == IF trace # <<>> /\ trace[Len(trace)].session = nSessions
                THEN trace[Len(trace)].clipTime
                ELSE lastClipTime
  IN IF UL(clipTime - last) < TrackGapMs
       THEN currentTrackIndex + 1
       ELSE 1

\* The track of a clip logged at clipTime (logCommand of variants 1 and 3).
NextTrack(clipTime) ==
  IF UL(clipTime - lastClipTime) < TrackGapMs
    THEN currentTrackIndex + 1
    ELSE 1

\* Variant 1 leaves the allocator alone for "power" and "power_hold".
AllocatorSkips(buttonName) ==
  variant = 1 /\ buttonName \in {"power", "power_hold"}

\* The track written into the line.
TrackOf(buttonName, clipTime) ==
  IF variant = 2 THEN 1
  ELSE IF AllocatorSkips(buttonName) THEN currentTrackIndex
  ELSE NextTrack(clipTime)

\* String(clipTime / 1000.0, 3): seconds with three decimals.
Seconds3(clipTime) == <<clipTime \div 1000, clipTime % 1000>>

\* app.project.activeSequence.videoTracks[<track>].insertClip("<name>.mp4", <s>);
CommandStr(track, buttonName, clipTime) ==
  [track |-> track, clip |-> buttonName \o ".mp4", time |-> Seconds3(clipTime)]

\* A writeToFile that appends even when the file cannot be opened.
WriteToFileAlways(fs, fname, line, openOk) ==
  IF fname = <<>> THEN fs ELSE AppendLine(fs, fname, line)

\* writeToFile: the storage after the call.
WriteToFile(fs, fname, line, openOk) ==
  IF fname = <<>> THEN fs
  ELSE IF openOk THEN AppendLine(fs, fname, line)
  ELSE fs

\* writeToFile: what it writes, in order.
WriteToFileIO(fname, line, openOk) ==
  IF fname = <<>> THEN <<Msg("No active session file.")>>
  ELSE IF openOk THEN <<Wrote(fname, line)>>
  ELSE <<Msg("Failed to open file for writing")>>

\* A logCommand that writes to the file before it echoes.
LogCommandAppendFirst(fname, line, openOk) ==
  IF fname = <<>> THEN <<Msg("No active session file.")>> \o <<Echo(line)>>
  ELSE IF openOk THEN <<Wrote(fname, line), Echo(line)>>
  ELSE <<Msg("Failed to open file for writing"), Echo(line)>>

\* logCommand: Serial.println(commandStr), then writeToFile(commandStr).
LogCommandIO(fname, line, openOk) ==
  <<Echo(line)>> \o WriteToFileIO(fname, line, openOk)

(***************************************************************************)
(* File management helpers.                                                *)
(***************************************************************************)
Min(a, b) == IF a < b THEN a ELSE b

\* listStoredFiles: the snapshot it takes (at most MaxFiles entries).
ListedNames(fs) == [i \in 1..Min(Len(fs), MaxFiles) |-> fs[i].name]

ListIO(fs) ==
  IF Len(fs) = 0 THEN <<Msg("No files found.")>>
  ELSE [i \in 1..Min(Len(fs), MaxFiles) |-> [op |-> "listed", arg |-> <<i, fs[i].name>>]]

\* A sendFileOverSerial that prints the start marker before it opens the file.
SendFileStartsFirst(fs, name) ==
  IF ~Exists(fs, name)
    THEN <<Msg("Sending"),
           [op |-> "START_FILE_TRANSFER", arg |-> name],
           Msg("Failed to open file for reading")>>
    ELSE <<Msg("Sending"),
           [op |-> "START_FILE_TRANSFER", arg |-> name],
           [op |-> "data", arg |-> Content(fs, name)],
           [op |-> "END_FILE_TRANSFER", arg |-> name]>>

\* sendFileOverSerial: what it writes.
SendFileIO(fs, name) ==
  IF ~Exists(fs, name)
    THEN <<Msg("Sending"), Msg("Failed to open file for reading")>>
    ELSE <<Msg("Sending"),
           [op |-> "START_FILE_TRANSFER", arg |-> name],
           [op |-> "data", arg |-> Content(fs, name)],
           [op |-> "END_FILE_TRANSFER", arg |-> name]>>

RECURSIVE SendAllIO(_, _, _)
SendAllIO(fs, list, i) ==
  IF i > Len(list) THEN <<>> ELSE SendFileIO(fs, list[i]) \o SendAllIO(fs, list, i + 1)

(***************************************************************************)
(* The environment: the IR receiver and the clock.                         *)
(***************************************************************************)
Codes == {25, 24, PowerCode, 99}
FlushedCodes == {0, 24}
IdleSteps == {2 * PollDelayMs, FrameDelayMs}

\* The repeat flag of a decoded frame: only a library that defines
\* IRDATA_FLAGS_IS_REPEAT sets it, and only on a frame that repeats the command
\* decoded last.
Repeats(cmd, rep) == rep => (useRepeatFlag /\ cmd = irLast)

\* A frame the receiver can hand to loop(): a repeat frame is only seen while
\* the button is still held, that is right after the receiver was resumed.
FrameOk(cmd, rep) ==
  /\ nFrames < MaxFrames
  /\ Repeats(cmd, rep)
  /\ rep => idleSince = 0

\* One processed input: the decoded command and flag, the clock, the session
\* it fell in, whether the hold detector took it for a repeat, the event it
\* became (name "" and track 0 when it was suppressed) and holdLogged after it.
Input(cmd, rep, session, isRep, name, track, clipTime, held) ==
  [cmd |-> cmd, rep |-> rep, at |-> now, session |-> session,
   isRepeat |-> isRep, name |-> name, track |-> track, clipTime |-> clipTime,
   held |-> held]

\* delay(ms): the clock after the handler's trailing delay.
Delay(ms) ==
  /\ now + ms <= MaxTime
  /\ now' = now + ms

sessionVars == <<currentFileName, sessionActive, awaitingSessionName, timestampStart>>
holdVars == <<lastButton, lastButtonTimestamp, holdLogged>>
trackVars == <<lastClipTime, currentTrackIndex>>
fmVars == <<fileList, fileCount, logFileBase, prefs>>
buildVars == <<variant, useRepeatFlag>>

(***************************************************************************)
(* handleButtonPress, variants 1 and 3.                                    *)
(***************************************************************************)
HandleButtonPress(cmd, rep, openOk) ==
  LET buttonName == ButtonName(cmd)
      logged == HoldName(buttonName, rep)
      clipTime == UL(now - timestampStart)
      track == TrackOf(logged, clipTime)
      line == CommandStr(track, logged, clipTime)
  IN IF buttonName = ""
       THEN /\ io' = <<Frame(cmd, rep)>>
            /\ UNCHANGED <<holdVars, trackVars, files, trace>>
     ELSE IF logged = ""
       THEN /\ io' = <<Frame(cmd, rep)>>
            /\ trace' = Append(trace, Input(cmd, rep, nSessions, TRUE, "", 0,
                                             clipTime, holdLogged))
            /\ UNCHANGED <<holdVars, trackVars, files>>
     ELSE /\ holdLogged' = HoldLoggedAfter(buttonName, rep)
          /\ currentTrackIndex' = track
          /\ lastClipTime' = IF AllocatorSkips(logged) THEN lastClipTime ELSE clipTime
          /\ files' = WriteToFile(files, currentFileName, line, openOk)
          /\ io' = <<Frame(cmd, rep)>> \o LogCommandIO(currentFileName, line, openOk)
          /\ lastButton' = logged
          /\ lastButtonTimestamp' = now
          /\ trace' = Append(trace, Input(cmd, rep, nSessions,
                                          IsRepeat(buttonName, rep), logged, track,
                                          clipTime, HoldLoggedAfter(buttonName, rep)))

(***************************************************************************)
(* handleButtonPress, variant 2: the power code toggles the session.       *)
(***************************************************************************)
SessionFileName2 == logFileBase \o DecStr(actionCount) \o TxtStr

\* A variant 2 that logs every known button, session or not.
LogsAlways(starts) == TRUE

\* Variant 2 logs the power press that starts a session and, while a session
\* is active, every event; other events are ignored.
LogsEvent(starts) == starts \/ sessionActive

HandleButtonPress2(cmd, rep, openOk) ==
  LET buttonName == ButtonName2(cmd)
      logged == HoldName(buttonName, rep)
      starts == logged = "power" /\ ~sessionActive
      ends == logged = "power" /\ sessionActive
      fname == IF starts THEN SessionFileName2 ELSE currentFileName
      start == IF starts THEN now ELSE timestampStart
      clipTime == UL(now - start)
      track == TrackOf(logged, clipTime)
      line == CommandStr(track, logged, clipTime)
      entry == Input(cmd, rep, IF starts THEN nSessions + 1 ELSE nSessions,
                     IsRepeat(buttonName, rep), logged, track, clipTime,
                     HoldLoggedAfter(buttonName, rep))
      logs == LogsEvent(starts)
      after == WriteToFile(files, fname, line, openOk)
  IN IF buttonName = ""
       THEN /\ io' = <<Frame(cmd, rep), Number(cmd)>>
            /\ UNCHANGED <<holdVars, files, trace, currentFileName,
                           sessionActive, timestampStart, actionCount, nSessions>>
     ELSE IF logged = ""
       THEN /\ io' = <<Frame(cmd, rep), Number(cmd)>>
            /\ trace' = Append(trace, Input(cmd, rep, nSessions, TRUE, "", 0,
                                             clipTime, holdLogged))
            /\ UNCHANGED <<holdVars, files, currentFileName, sessionActive,
                           timestampStart, actionCount, nSessions>>
     ELSE /\ starts => nSessions < MaxSessions
          /\ holdLogged' = HoldLoggedAfter(buttonName, rep)
          /\ currentFileName' = fname
          /\ timestampStart' = start
          /\ sessionActive' = IF logged = "power" THEN ~sessionActive ELSE sessionActive
          /\ actionCount' = IF ends THEN actionCount + 1 ELSE actionCount
          /\ nSessions' = IF starts THEN nSessions + 1 ELSE nSessions
          /\ files' = IF logs THEN after ELSE files
          /\ io' = <<Frame(cmd, rep), Number(cmd)>>
                   \o (IF starts THEN <<Msg("Session started")>> ELSE <<>>)
                   \o (IF logs THEN LogCommandIO(fname, line, openOk)
                       ELSE <<Msg("Ignoring command outside an active session.")>>)
                   \o (IF ends THEN SendFileIO(after, fname) \o <<Msg("Session ended")>>
                       ELSE <<>>)
          /\ lastButton' = logged
          /\ lastButtonTimestamp' = now
          /\ trace' = Append(trace, entry)

(***************************************************************************)
(* Serial input.  A blocking read is one action per line it can receive.   *)
(***************************************************************************)
MENU == <<"M", "E", "N", "U">>

\* Serial.readStringUntil('\n') where the code has waited for input: the line
\* in the receive buffer if there is one, and otherwise the line that arrives.
Available(lines) == IF pending = <<>> THEN lines ELSE {pending[1]}

\* The lines typed while a session records.
TypedLines == {<<>>, YStr}
NameLines == {<<>>, <<" ">>, <<"a">>, <<"/", "a">>, <<" ", "a">>, MenuStr, MENU}
ConfirmLines == {YStr, <<"Y">>, <<"n">>, <<>>, MenuStr}
GraceLines == {MenuStr, MENU, <<>>}
SessionLines == {EndStr, <<"E", "N", "D">>, YStr, MenuStr}
IdleLines == {MenuStr, MENU, <<>>}
BleLines == {MenuStr, <<>>}
MenuChoices == {"1", "2", "3", "x"}
ListStr == <<"l", "i", "s", "t">>
DeleteStr == <<"d", "e", "l", "e", "t", "e">>
SendStr == <<"s", "e", "n", "d", " ">>
AllStr == <<"a", "l", "l">>
SetbaseStr == <<"s", "e", "t", "b", "a", "s", "e", " ">>
FMLines ==
  {ListStr, DeleteStr, DeleteStr \o <<" ", "1">>, DeleteStr \o <<" ", "2">>,
   SendStr \o <<"1">>, SendStr \o <<"9">>, SendStr \o AllStr,
   SetbaseStr \o <<"/", "b">>, SetbaseStr, MenuStr, MENU, <<"x">>}

(***************************************************************************)
(* setup and selectMode.                                                   *)
(***************************************************************************)
\* A setup that reports a failed mount and goes on to the menu.
SetupGoesOn ==
  /\ pc = "boot"
  /\ \E mounted \in BOOLEAN :
       /\ pc' = "menu"
       /\ logFileBase' = IF prefs.logBase = <<>> THEN DefaultLogBase
                         ELSE prefs.logBase
       /\ io' = <<Msg(IF mounted THEN "SPIFFS mounted successfully"
                      ELSE "Failed to mount SPIFFS"), Msg("MENU")>>
  /\ UNCHANGED <<buildVars, pending, now, sessionVars, holdVars, trackVars, currentMode,
                 fileList, fileCount, actionCount, startTime, prefs, files,
                 irLast, idleSince, trace, nFrames, nSessions>>

\* setup: initFileSystem halts when SPIFFS cannot be mounted; otherwise the
\* log base is loaded and selectMode waits for a choice.
Setup ==
  /\ pc = "boot"
  /\ \E mounted \in BOOLEAN :
       IF mounted
         THEN /\ pc' = "menu"
              /\ logFileBase' = IF prefs.logBase = <<>> THEN DefaultLogBase
                                ELSE prefs.logBase
              /\ io' = <<Msg("SPIFFS mounted successfully"), Msg("MENU")>>
         ELSE /\ pc' = "halt"
              /\ io' = <<Msg("Failed to mount SPIFFS")>>
              /\ UNCHANGED logFileBase
  /\ UNCHANGED <<buildVars, pending, now, sessionVars, holdVars, trackVars, currentMode,
                 fileList, fileCount, actionCount, startTime, prefs, files,
                 irLast, idleSince, trace, nFrames, nSessions>>

\* The mode selectMode sets for the character it read.
ModeFor(choice) ==
  CASE choice = "1" -> 1
    [] choice = "2" -> 2
    [] choice = "3" /\ variant = 3 -> 3
    [] OTHER -> 1

\* selectMode, from the character read on: mode 2 also lists the files.
SelectMode ==
  /\ pc = "menu"
  /\ \E choice \in MenuChoices :
       /\ currentMode' = ModeFor(choice)
       /\ IF ModeFor(choice) = 2
            THEN /\ fileList' = ListedNames(files)
                 /\ fileCount' = Len(ListedNames(files))
                 /\ io' = <<Msg("File Management Mode selected.")>>
                          \o ListIO(files)
            ELSE /\ io' = <<Msg("mode selected")>>
                 /\ UNCHANGED <<fileList, fileCount>>
  /\ pc' = "loop"
  /\ UNCHANGED <<buildVars, pending, now, sessionVars, holdVars, trackVars, logFileBase,
                 actionCount, startTime, prefs, files, irLast, idleSince,
                 trace, nFrames, nSessions>>

(***************************************************************************)
(* loop(), IR mode, variants 1 and 3 (irModeLoop).                         *)
(***************************************************************************)
\* The log file a session name designates: '/' is prepended when missing.
\* A session start that takes the name as typed.
SessionFileNameAsTyped(input) == input \o TxtStr

SessionFileName(input) ==
  (IF CharAt(input, 0) # "/" THEN <<"/">> \o input ELSE input) \o TxtStr

\* No session is active and a line is read (after the name prompt, when the
\* pass is the first to wait for a name): "menu" goes to selectMode, any
\* other line starts a session under that name; pending IR frames are
\* flushed, and the handler ends with delay(500).  (Variant 3 calls
\* sendVolumeUp, which only prints here: the BLE keyboard is begun and ended
\* inside bleMode, so it is not connected in IR mode.)
NameLine ==
  /\ pc = "loop" /\ irMode /\ variant \in {1, 3} /\ ~sessionActive
  /\ \E line \in NameLines :
       LET input == Trim(line)
           prompt == IF awaitingSessionName THEN <<>>
                     ELSE <<Msg("Enter file name for new session")>>
       IN
       IF EqualsIgnoreCase(input, MenuStr)
         THEN /\ awaitingSessionName' = FALSE
              /\ pc' = "menu"
              /\ io' = prompt \o <<Read(line), Msg("MENU")>>
              /\ UNCHANGED <<now, currentFileName, sessionActive, timestampStart,
                             trackVars, irLast, idleSince, nSessions>>
         ELSE /\ nSessions < MaxSessions
              /\ currentFileName' = SessionFileName(input)
              /\ sessionActive' = TRUE
              /\ awaitingSessionName' = FALSE
              /\ timestampStart' = now
              /\ lastClipTime' = 0
              /\ currentTrackIndex' = 1
              /\ io' = prompt \o <<Read(line), Msg("Session started")>>
              /\ \E flushed \in FlushedCodes :
                   irLast' = IF flushed = 0 THEN irLast ELSE flushed
              /\ idleSince' = 0
              /\ Delay(FrameDelayMs)
              /\ nSessions' = nSessions + 1
              /\ pc' = "loop"
  /\ UNCHANGED <<buildVars, pending, holdVars, currentMode, fmVars, actionCount, startTime,
                 files, trace, nFrames>>

\* A session is active and the receiver has decoded a frame.  Variant 1 ends
\* the session on the power code and waits for the keep/discard answer;
\* every other frame goes to handleButtonPress, followed by delay(500).
SessionFrame ==
  /\ pc = "loop" /\ irMode /\ variant \in {1, 3} /\ sessionActive
  /\ \E cmd \in Codes, rep \in BOOLEAN, openOk \in BOOLEAN :
       /\ FrameOk(cmd, rep)
       /\ irLast' = cmd
       /\ IF variant = 1 /\ cmd = PowerCode
            THEN /\ pc' = "confirm"
                 /\ io' = <<Frame(cmd, rep), Msg("Session ended"),
                            Msg("Do you want to save the recorded file?")>>
                 /\ UNCHANGED <<now, idleSince, holdVars, trackVars, files, trace>>
            ELSE /\ HandleButtonPress(cmd, rep, openOk)
                 /\ Delay(FrameDelayMs)
                 /\ idleSince' = 0
                 /\ pc' = "loop"
  /\ nFrames' = nFrames + 1
  /\ UNCHANGED <<buildVars, pending, sessionVars, currentMode, fmVars, actionCount,
                 startTime, nSessions>>

\* A variant 3 in which "menu" ends the session as "end" does.
SessionLineMenuEnds ==
  /\ pc = "loop" /\ irMode /\ variant = 3 /\ sessionActive
  /\ \E line \in SessionLines :
       IF \/ EqualsIgnoreCase(Trim(line), EndStr)
          \/ EqualsIgnoreCase(Trim(line), MenuStr)
         THEN /\ pc' = "confirm"
              /\ io' = <<Read(line), Msg("Session ended"),
                         Msg("Do you want to save the recorded file?")>>
         ELSE /\ pc' = "loop"
              /\ io' = <<Read(line)>>
  /\ UNCHANGED <<buildVars, pending, now, sessionVars, holdVars, trackVars, currentMode, fmVars,
                 actionCount, startTime, files, irLast, idleSince, trace,
                 nFrames, nSessions>>

\* Variant 3: a session is active and a line is read; "end" ends the session
\* and waits for the keep/discard answer.
SessionLine ==
  /\ pc = "loop" /\ irMode /\ variant = 3 /\ sessionActive
  /\ \E line \in SessionLines :
       IF EqualsIgnoreCase(Trim(line), EndStr)
         THEN /\ pc' = "confirm"
              /\ io' = <<Read(line), Msg("Session ended"),
                         Msg("Do you want to save the recorded file?")>>
         ELSE /\ pc' = "loop"
              /\ io' = <<Read(line)>>
  /\ UNCHANGED <<buildVars, pending, now, sessionVars, holdVars, trackVars, currentMode, fmVars,
                 actionCount, startTime, files, irLast, idleSince, trace,
                 nFrames, nSessions>>

\* The keep/discard answer: "y" keeps the file, "menu" removes it and goes to
\* selectMode, anything else removes it; the session record is cleared and,
\* except after "menu", the grace window starts.
Confirm ==
  /\ pc = "confirm"
  /\ pending' = <<>>
  /\ \E line \in Available(ConfirmLines) :
       LET decision == Trim(line)
           keep == EqualsIgnoreCase(decision, YStr)
           menu == ~keep /\ EqualsIgnoreCase(decision, MenuStr)
       IN /\ files' = IF keep THEN files ELSE RemoveFile(files, currentFileName)
          /\ io' = <<Read(line)>> \o
                   (IF keep THEN <<Msg("File saved.")>>
                       ELSE IF Exists(files, currentFileName)
                         THEN <<Removed(currentFileName), Msg("File deleted.")>>
                       ELSE <<Msg("Error deleting file.")>>)
          /\ sessionActive' = FALSE
          /\ currentFileName' = <<>>
          /\ IF menu
               THEN /\ pc' = "menu"
                    /\ UNCHANGED startTime
               ELSE /\ now + GraceMs <= MaxTime
                    /\ pc' = "grace"
                    /\ startTime' = now
  /\ UNCHANGED <<buildVars, now, awaitingSessionName, timestampStart, holdVars,
                 trackVars, currentMode, fmVars, actionCount, irLast, idleSince,
                 trace, nFrames, nSessions>>

\* Passes of the grace window's loop.  Passes in which no line is available
\* only delay(100) each and are taken together, up to the last pass of the
\* window or up to its end.  A pass that reads a line goes to selectMode on
\* "menu", and otherwise delays 100 ms; lines arrive at the first or at the
\* last pass of the window.
GraceNext == {startTime + GraceMs - PollDelayMs, startTime + GraceMs}
GraceReadAt == {0, GraceMs - PollDelayMs}

GracePoll ==
  /\ pc = "grace"
  /\ UL(now - startTime) < GraceMs
  /\ \/ /\ io' = <<>>
        /\ \E t \in GraceNext : t > now /\ now' = t
        /\ pc' = "grace"
     \/ \E line \in GraceLines :
          /\ UL(now - startTime) \in GraceReadAt
          /\ io' = <<Read(line)>>
          /\ IF EqualsIgnoreCase(Trim(line), MenuStr)
               THEN pc' = "menu" /\ UNCHANGED now
               ELSE pc' = "grace" /\ Delay(PollDelayMs)
  /\ UNCHANGED <<buildVars, pending, sessionVars, holdVars, trackVars, currentMode, fmVars,
                 actionCount, startTime, files, irLast, idleSince, trace,
                 nFrames, nSessions>>

\* A grace window that keeps waiting once its time has elapsed.
GraceKeepsWaiting ==
  /\ pc = "grace"
  /\ ~(UL(now - startTime) < GraceMs)
  /\ io' = IF io = <<>> THEN <<Msg("waiting")>> ELSE <<>>
  /\ UNCHANGED <<buildVars, pending, pc, now, sessionVars, holdVars, trackVars, currentMode,
                 fmVars, actionCount, startTime, files, irLast, idleSince,
                 trace, nFrames, nSessions>>

\* The grace window has elapsed: loop() returns.
GraceExit ==
  /\ pc = "grace"
  /\ ~(UL(now - startTime) < GraceMs)
  /\ pc' = "loop"
  /\ io' = <<>>
  /\ UNCHANGED <<buildVars, pending, now, sessionVars, holdVars, trackVars, currentMode,
                 fmVars, actionCount, startTime, files, irLast, idleSince,
                 trace, nFrames, nSessions>>

(***************************************************************************)
(* Passes of loop() in which nothing arrives.                              *)
(***************************************************************************)
\* IR mode of variants 1 and 3, no session active: the pass prints the name
\* prompt once.
Prompt ==
  /\ pc = "loop" /\ irMode /\ variant \in {1, 3}
  /\ ~sessionActive /\ ~awaitingSessionName
  /\ awaitingSessionName' = TRUE
  /\ io' = <<Msg("Enter file name for new session")>>
  /\ UNCHANGED <<buildVars, pending, pc, now, currentFileName, sessionActive, timestampStart,
                 holdVars, trackVars, currentMode, fmVars, actionCount, startTime,
                 files, irLast, idleSince, trace, nFrames, nSessions>>

\* Time passes while the receiver is polled and no frame arrives.
IdleFor(steps) ==
  /\ pc = "loop" /\ irMode
  /\ sessionActive \/ variant = 2
  /\ idleSince = 0
  /\ \E d \in steps : Delay(d) /\ idleSince' = d
  /\ io' = <<>>
  /\ UNCHANGED <<buildVars, pending, pc, sessionVars, holdVars, trackVars, currentMode,
                 fmVars, actionCount, startTime, files, irLast, trace, nFrames,
                 nSessions>>

Idle == IdleFor(IdleSteps)

(***************************************************************************)
(* loop(), IR mode, variant 2.                                             *)
(***************************************************************************)
\* A variant 2 that reads the line "menu" during a session as well.
IdleLine2InSession ==
  /\ pc = "loop" /\ irMode /\ variant = 2
  /\ pending' = <<>>
  /\ \E line \in Available(IdleLines) :
       /\ io' = <<>>
       /\ pc' = IF Trim(line) = MenuStr THEN "menu" ELSE "loop"
  /\ UNCHANGED <<buildVars, now, sessionVars, holdVars, trackVars, currentMode,
                 fmVars, actionCount, startTime, files, irLast, idleSince,
                 trace, nFrames, nSessions>>

\* No session is active and a line is read: only the exact line "menu" goes
\* to selectMode.
IdleLine2 ==
  /\ pc = "loop" /\ irMode /\ variant = 2 /\ ~sessionActive
  /\ pending' = <<>>
  /\ \E line \in Available(IdleLines) :
       /\ io' = <<>>
       /\ pc' = IF Trim(line) = MenuStr THEN "menu" ELSE "loop"
  /\ UNCHANGED <<buildVars, now, sessionVars, holdVars, trackVars, currentMode,
                 fmVars, actionCount, startTime, files, irLast, idleSince,
                 trace, nFrames, nSessions>>

\* A decoded frame goes to handleButtonPress, followed by delay(500).
Frame2 ==
  /\ pc = "loop" /\ irMode /\ variant = 2
  /\ sessionActive \/ pending = <<>>
  /\ \E cmd \in Codes, rep \in BOOLEAN, openOk \in BOOLEAN :
       /\ FrameOk(cmd, rep)
       /\ irLast' = cmd
       /\ HandleButtonPress2(cmd, rep, openOk)
  /\ Delay(FrameDelayMs)
  /\ idleSince' = 0
  /\ nFrames' = nFrames + 1
  /\ UNCHANGED <<buildVars, pending, pc, awaitingSessionName, trackVars, currentMode, fmVars,
                 startTime>>

(***************************************************************************)
(* The control channel while no code reads it.                             *)
(***************************************************************************)
\* Variants 1 and 2 do not look at Serial while a session is active: a line
\* typed then stays in the receive buffer.
TypeAhead ==
  /\ pc = "loop" /\ irMode /\ variant \in {1, 2} /\ sessionActive
  /\ pending = <<>>
  /\ \E line \in TypedLines : pending' = <<line>>
  /\ io' = <<>>
  /\ UNCHANGED <<buildVars, pc, now, sessionVars, holdVars, trackVars, currentMode,
                 fmVars, actionCount, startTime, files, irLast, idleSince,
                 trace, nFrames, nSessions>>

(***************************************************************************)
(* loop(), variant 3: the menu and the BLE pairing mode.                   *)
(***************************************************************************)
\* currentMode 0 calls selectMode, currentMode 3 calls bleMode.
Dispatch3 ==
  /\ pc = "loop" /\ variant = 3 /\ currentMode \in {0, 3}
  /\ pc' = IF currentMode = 0 THEN "menu" ELSE "ble"
  /\ io' = <<Msg(IF currentMode = 0 THEN "MENU" ELSE "BLE")>>
  /\ UNCHANGED <<buildVars, pending, now, sessionVars, holdVars, trackVars, currentMode,
                 fmVars, actionCount, startTime, files, irLast, idleSince,
                 trace, nFrames, nSessions>>

\* One pass of bleMode's loop: a connected keyboard is recorded as paired; the
\* line "menu" leaves the mode.
BlePoll ==
  /\ pc = "ble"
  /\ \E connected \in BOOLEAN, line \in BleLines :
       /\ prefs' = IF connected THEN [prefs EXCEPT !.paired = TRUE] ELSE prefs
       /\ io' = <<>>
       /\ IF EqualsIgnoreCase(Trim(line), MenuStr)
            THEN pc' = "loop" /\ currentMode' = 0
            ELSE pc' = "ble" /\ UNCHANGED currentMode
  /\ UNCHANGED <<buildVars, pending, now, sessionVars, holdVars, trackVars, fileList,
                 fileCount, logFileBase, actionCount, startTime, files, irLast,
                 idleSince, trace, nFrames, nSessions>>

(***************************************************************************)
(* loop(), file management mode: handleSerialCommand.                      *)
(***************************************************************************)
\* The snapshot index a "send <n>" or "delete <n>" accepts.
ValidIndex(n) == n > 0 /\ n <= fileCount

\* What handleSerialCommand leaves behind, as a record of the variables it can
\* write; io is what it prints, in order.
Unchanged ==
  [pc |-> "loop", io |-> <<>>, fileList |-> fileList, fileCount |-> fileCount,
   logFileBase |-> logFileBase, prefs |-> prefs, files |-> files]

\* listStoredFiles on the storage of r: the snapshot is retaken and printed.
Listed(r) ==
  [r EXCEPT !.fileList = ListedNames(r.files),
            !.fileCount = Len(ListedNames(r.files)),
            !.io = r.io \o ListIO(r.files)]

\* A listing that an invalid file number also triggers.
InvalidNumberRelists == Listed([Unchanged EXCEPT !.io = <<Msg("Invalid file number.")>>])

\* The else branch of the index check.
InvalidNumber == [Unchanged EXCEPT !.io = <<Msg("Invalid file number.")>>]

\* "delete <n>" with a valid n: the file is removed and the files are listed.
DeleteOne(n) ==
  LET name == fileList[n]
      removed == IF Exists(files, name) THEN Removed(name)
                 ELSE Msg("Failed to delete file")
  IN Listed([Unchanged EXCEPT !.files = RemoveFile(files, name),
                              !.io = <<removed>>])

\* "send all".
SendAll ==
  IF fileCount = 0 THEN <<Msg("No files to send.")>>
  ELSE <<Msg("START_ALL_FILE_TRANSFER")>>
       \o SendAllIO(files, fileList, 1)
       \o <<Msg("END_ALL_FILE_TRANSFER")>>

\* handleSerialCommand(line): the keywords are compared with ==.
CommandResult(line) ==
  LET command == Trim(line)
      base == Trim(Substring(command, 8))
      delIndex == ToInt(Trim(Substring(command, 7)))
      sendArg == Substring(command, 5)
      sendIndex == ToInt(sendArg)
  IN
  IF command = MenuStr
    THEN [Unchanged EXCEPT !.pc = "menu", !.io = <<Msg("MENU")>>]
  ELSE IF StartsWith(command, SetbaseStr)
    THEN IF Len(base) > 0
           THEN [Unchanged EXCEPT !.logFileBase = base,
                                  !.prefs = [prefs EXCEPT !.logBase = base],
                                  !.io = <<Msg("Log file base changed")>>]
           ELSE [Unchanged EXCEPT !.io = <<Msg("Invalid base name.")>>]
  ELSE IF command = DeleteStr
    THEN [Unchanged EXCEPT !.files = DeleteAllFiles(files),
                           !.io = <<Msg("All files deleted.")>>]
  ELSE IF StartsWith(command, DeleteStr \o <<" ">>)
    THEN IF ValidIndex(delIndex) THEN DeleteOne(delIndex) ELSE InvalidNumber
  ELSE IF command = ListStr
    THEN Listed(Unchanged)
  ELSE IF StartsWith(command, SendStr)
    THEN IF sendArg = AllStr THEN [Unchanged EXCEPT !.io = SendAll]
         ELSE IF ValidIndex(sendIndex)
           THEN [Unchanged EXCEPT !.io = SendFileIO(files, fileList[sendIndex])]
         ELSE InvalidNumber
  ELSE [Unchanged EXCEPT !.io = <<Msg("Unknown command.")>>]

\* loop() in file management mode: one line is read and handed to
\* handleSerialCommand; "menu" calls selectMode from there.
HandleSerialCommand(line) ==
  LET r == CommandResult(line) IN
  /\ pc' = r.pc
  /\ io' = <<Read(line)>> \o r.io
  /\ fileList' = r.fileList
  /\ fileCount' = r.fileCount
  /\ logFileBase' = r.logFileBase
  /\ prefs' = r.prefs
  /\ files' = r.files

FileCommandOf(lines) ==
  /\ pc = "loop" /\ currentMode = 2
  /\ \E line \in lines : HandleSerialCommand(line)
  /\ UNCHANGED <<buildVars, pending, now, sessionVars, holdVars, trackVars, currentMode,
                 actionCount, startTime, irLast, idleSince, trace, nFrames,
                 nSessions>>

FileCommand == FileCommandOf(FMLines)

(***************************************************************************)
(* The specification of the firmware.                                      *)
(***************************************************************************)
Init ==
  /\ variant \in {1, 2, 3}
  /\ useRepeatFlag \in BOOLEAN
  /\ pc = "boot"
  /\ now = 0
  /\ timestampStart = 0
  /\ lastButton = ""
  /\ lastButtonTimestamp = 0
  /\ holdLogged = FALSE
  /\ currentFileName = <<>>
  /\ sessionActive = FALSE
  /\ awaitingSessionName = FALSE
  /\ currentMode = IF variant = 3 THEN 0 ELSE 1
  /\ fileList = <<>>
  /\ fileCount = 0
  /\ logFileBase = DefaultLogBase
  /\ lastClipTime = 0
  /\ currentTrackIndex = 1
  /\ actionCount = 0
  /\ startTime = 0
  /\ prefs = [logBase |-> <<>>, paired |-> FALSE]
  /\ files = <<>>
  /\ io = <<>>
  /\ irLast = 0
  /\ idleSince = 0
  /\ trace = <<>>
  /\ nFrames = 0
  /\ nSessions = 0
  /\ pending = <<>>

Next ==
  \/ Setup
  \/ SelectMode
  \/ NameLine
  \/ SessionFrame
  \/ SessionLine
  \/ Confirm
  \/ GracePoll
  \/ GraceExit
  \/ Prompt
  \/ Idle
  \/ IdleLine2
  \/ Frame2
  \/ TypeAhead
  \/ Dispatch3
  \/ BlePoll
  \/ FileCommand

Spec == Init /\ [][Next]_vars

(***************************************************************************)
(* The firmware with the file management commands that matter to the       *)
(* modes and to the sessions: list, delete <n>, setbase and menu.          *)
(***************************************************************************)
ModeLines ==
  {ListStr, DeleteStr \o <<" ", "1">>, SetbaseStr \o <<"/", "b">>, MenuStr}

FileCommandFew == FileCommandOf(ModeLines)

NextModes ==
  \/ Setup
  \/ SelectMode
  \/ NameLine
  \/ SessionFrame
  \/ SessionLine
  \/ Confirm
  \/ GracePoll
  \/ GraceExit
  \/ Prompt
  \/ Idle
  \/ IdleLine2
  \/ Frame2
  \/ TypeAhead
  \/ Dispatch3
  \/ BlePoll
  \/ FileCommandFew

SpecModes == Init /\ [][NextModes]_vars

(***************************************************************************)
(* The IR mode alone: the session lifecycle of the three variants.  The    *)
(* file management and BLE modes can be selected but are not entered.      *)
(***************************************************************************)
NextIR ==
  \/ Setup
  \/ SelectMode
  \/ NameLine
  \/ SessionFrame
  \/ SessionLine
  \/ Confirm
  \/ GracePoll
  \/ GraceExit
  \/ Prompt
  \/ Idle
  \/ IdleLine2
  \/ Frame2
  \/ TypeAhead

SpecIR == Init /\ [][NextIR]_vars

\* loop() keeps running: a pass of the grace window, its exit and the name
\* prompt are taken when they stay possible.
FairSpecIR ==
  /\ SpecIR
  /\ WF_vars(GracePoll)
  /\ WF_vars(GraceExit)
  /\ WF_vars(Prompt)

(***************************************************************************)
(* A second session of the same boot, variants 1 and 3.  The first session *)
(* was started at tick 0 and got one "right" frame 500 ms later, a repeat   *)
(* frame of the command flushed at its start (which the flag build logs as *)
(* right_hold and the heuristic build as right); it was ended, its file     *)
(* /a.txt kept or discarded, and the grace window ran out.  The counters    *)
(* and the trace restart at the name prompt: they bound and record the      *)
(* session that follows.                                                    *)
(***************************************************************************)
FirstFile == <<"/", "a">> \o TxtStr
FirstHold == IF useRepeatFlag THEN "right_hold" ELSE "right"
FirstKept ==
  <<[name |-> FirstFile,
     content |-> <<CommandStr(2, FirstHold, FrameDelayMs)>>]>>

InitAgain ==
  /\ variant \in {1, 3}
  /\ useRepeatFlag \in BOOLEAN
  /\ pc = "loop"
  /\ now = 2 * FrameDelayMs + GraceMs
  /\ timestampStart = 0
  /\ lastButton = FirstHold
  /\ lastButtonTimestamp = FrameDelayMs
  /\ holdLogged = useRepeatFlag
  /\ currentFileName = <<>>
  /\ sessionActive = FALSE
  /\ awaitingSessionName = FALSE
  /\ currentMode = 1
  /\ fileList = <<>>
  /\ fileCount = 0
  /\ logFileBase = DefaultLogBase
  /\ lastClipTime = FrameDelayMs
  /\ currentTrackIndex = 2
  /\ actionCount = 0
  /\ startTime = 2 * FrameDelayMs
  /\ prefs = [logBase |-> <<>>, paired |-> FALSE]
  /\ files \in {<<>>, FirstKept}
  /\ io = <<>>
  /\ irLast = IF variant = 1 THEN PowerCode ELSE 24
  /\ idleSince = 0
  /\ trace = <<>>
  /\ nFrames = 0
  /\ nSessions = 0
  /\ pending = <<>>

NextAgain ==
  \/ NameLine
  \/ SessionFrame
  \/ SessionLine
  \/ TypeAhead
  \/ Confirm
  \/ GracePoll
  \/ GraceExit
  \/ Prompt
  \/ Idle

SpecAgain == InitAgain /\ [][NextAgain]_vars

(***************************************************************************)
(* handleButtonPress called at chosen times within one session of variants *)
(* 1 and 3: the hold detector, the track allocator and the script emitter  *)
(* without the 500 ms pauses of loop().  The storage accepts every append  *)
(* here; SpecIR has the appends that fail.                                 *)
(***************************************************************************)
PressCodes == {25, 24}
PressWaits ==
  {PollDelayMs, 2 * PollDelayMs, TrackGapMs, TrackGapMs + FrameDelayMs}
PressOpens == {TRUE}
SessionName == <<"a">>

\* An earlier session "a" that was kept: "ok" was pressed once, 500 ms after
\* its start.  The input as handleButtonPress recorded it, and its line.
EarlierInput ==
  [cmd |-> 25, rep |-> FALSE, at |-> FrameDelayMs, session |-> 1,
   isRepeat |-> FALSE, name |-> "ok", track |-> 2, clipTime |-> FrameDelayMs,
   held |-> FALSE]
EarlierLine == CommandStr(2, "ok", FrameDelayMs)
\* The earlier session ended 2 * FrameDelayMs after boot: the pause of its
\* start and the pause after its one press.
EarlierEnd == 2 * FrameDelayMs

\* The session record as NameLine sets it for the name "a", before the
\* trailing delay(500): either in the first session after boot, with no frame
\* pending, or in the session that follows the earlier one once its grace
\* window has run out, the frame of a held "right" having been flushed.
InitPress ==
  /\ variant \in {1, 3}
  /\ useRepeatFlag \in BOOLEAN
  /\ pc = "loop"
  /\ currentFileName = SessionFileName(SessionName)
  /\ sessionActive = TRUE
  /\ awaitingSessionName = FALSE
  /\ currentMode = 1
  /\ fileList = <<>>
  /\ fileCount = 0
  /\ logFileBase = DefaultLogBase
  /\ lastClipTime = 0
  /\ currentTrackIndex = 1
  /\ actionCount = 0
  /\ prefs = [logBase |-> <<>>, paired |-> FALSE]
  /\ io = <<Read(SessionName), Msg("Session started")>>
  /\ idleSince = 0
  /\ holdLogged = FALSE
  /\ \E later \in BOOLEAN :
       IF later
         THEN /\ now = EarlierEnd + GraceMs
              /\ lastButton = "ok"
              /\ lastButtonTimestamp = FrameDelayMs
              /\ startTime = EarlierEnd
              /\ files = <<[name |-> SessionFileName(SessionName),
                            content |-> <<EarlierLine>>]>>
              /\ trace = <<EarlierInput>>
              /\ nFrames = IF variant = 1 THEN 2 ELSE 1
              /\ nSessions = 2
              /\ irLast = 24
         ELSE /\ now = 0
              /\ lastButton = ""
              /\ lastButtonTimestamp = 0
              /\ startTime = 0
              /\ files = <<>>
              /\ trace = <<>>
              /\ nFrames = 0
              /\ nSessions = 1
              /\ irLast = 0
  /\ timestampStart = now
  /\ pending = <<>>

\* The inputs handleButtonPress processed in the current session.
InSession == {k \in 1..Len(trace) : trace[k].session = nSessions}

\* Time passes before the next call.
Wait ==
  /\ Cardinality(InSession) < MaxPresses
  /\ IdleFor(PressWaits)

\* One call of handleButtonPress; the first may come at session time 0.
Press ==
  /\ pc = "loop" /\ irMode /\ variant \in {1, 3} /\ sessionActive
  /\ idleSince > 0 \/ InSession = {}
  /\ Cardinality(InSession) < MaxPresses
  /\ \E cmd \in PressCodes, rep \in BOOLEAN, openOk \in PressOpens :
       /\ Repeats(cmd, rep)
       /\ irLast' = cmd
       /\ HandleButtonPress(cmd, rep, openOk)
  /\ idleSince' = 0
  /\ nFrames' = nFrames + 1
  /\ UNCHANGED <<buildVars, pending, pc, now, sessionVars, currentMode, fmVars, actionCount,
                 startTime, nSessions>>

NextPress ==
  \/ Wait
  \/ Press

SpecPress == InitPress /\ [][NextPress]_vars

(***************************************************************************)
(* The file management mode alone, entered from the menu right after boot  *)
(* over a storage that earlier sessions have left behind.                  *)
(***************************************************************************)
\* The log file of the session numbered k under a base.
StoredName(base, k) == base \o DecStr(k) \o TxtStr

\* The lines an earlier session has left in its log.
StoredLines ==
  IF variant = 2
    THEN <<CommandStr(1, "power", 0), CommandStr(1, "power", FrameDelayMs)>>
    ELSE <<CommandStr(2, "ok", FrameDelayMs)>>

StoreOf(names) ==
  [i \in 1..Len(names) |-> [name |-> names[i], content |-> StoredLines]]

\* Two logs in the root, a log under a base with a directory part, and one
\* log more than listStoredFiles can hold.
FlatNames == <<StoredName(<<"/", "a">>, 0), StoredName(<<"/", "a">>, 1)>>
NestedNames == <<StoredName(<<"/", "a">>, 0), StoredName(<<"/", "d", "/", "a">>, 0)>>
ManyNames == [k \in 1..(MaxFiles + 1) |-> StoredName(DefaultLogBase, k - 1)]
StoredNames == {<<>>, FlatNames, NestedNames, ManyNames}

\* The lines typed in file management mode.
IndexLines ==
  {SendStr \o <<"0">>, SendStr \o <<"1">>, SendStr \o <<"2">>, SendStr \o <<"3">>,
   SendStr \o <<"x">>, SendStr \o <<"5", "2">>,
   DeleteStr \o <<" ", "0">>, DeleteStr \o <<" ", "1">>,
   DeleteStr \o <<" ", "x">>, DeleteStr \o <<" ", "5", "2">>}
CaseLines ==
  {<<"L", "I", "S", "T">>, <<"D", "e", "l", "e", "t", "e">>,
   <<"S", "E", "N", "D", " ", "a", "l", "l">>, <<"S", "e", "n", "d", " ", "1">>,
   <<"S", "E", "T", "B", "A", "S", "E", " ", "/", "b">>, <<"M", "e", "n", "u">>}
AllFMLines ==
  {ListStr, DeleteStr, SendStr \o AllStr, SetbaseStr \o <<"/", "b">>, MenuStr,
   <<" ", "l", "i", "s", "t", " ">>}
  \cup IndexLines \cup CaseLines

InitFM ==
  /\ variant \in {1, 2, 3}
  /\ useRepeatFlag = TRUE
  /\ pc = "loop"
  /\ now = 0
  /\ timestampStart = 0
  /\ lastButton = ""
  /\ lastButtonTimestamp = 0
  /\ holdLogged = FALSE
  /\ currentFileName = <<>>
  /\ sessionActive = FALSE
  /\ awaitingSessionName = FALSE
  /\ currentMode = 2
  /\ \E names \in StoredNames :
       /\ files = StoreOf(names)
       /\ prefs = [logBase |-> IF variant = 2 /\ names \in {FlatNames, NestedNames}
                                 THEN DefaultLogBase ELSE <<>>,
                   paired |-> FALSE]
  /\ fileList = ListedNames(files)
  /\ fileCount = Len(ListedNames(files))
  /\ logFileBase = DefaultLogBase
  /\ lastClipTime = 0
  /\ currentTrackIndex = 1
  /\ actionCount = 0
  /\ startTime = 0
  /\ io = <<Msg("File Management Mode selected.")>> \o ListIO(files)
  /\ irLast = 0
  /\ idleSince = 0
  /\ trace = <<>>
  /\ nFrames = 0
  /\ nSessions = 0
  /\ pending = <<>>

FileCommandAny == FileCommandOf(AllFMLines)

NextFM ==
  \/ FileCommandAny
  \/ SelectMode

SpecFM == InitFM /\ [][NextFM]_vars

(***************************************************************************)
(* Properties of the hold detector and the track allocator (SpecPress).    *)
(***************************************************************************)
\* Inputs i < j that became consecutive logged events of one session.
Consecutive(i, j) ==
  /\ i < j
  /\ trace[i].name # "" /\ trace[j].name # ""
  /\ trace[i].session = trace[j].session
  /\ \A k \in (i + 1)..(j - 1) : trace[k].name = ""

\* The line of a logged input, as logCommand formats it.
LineOf(e) == CommandStr(e.track, e.name, e.clipTime)

\* C1: within one session, of two consecutive logged events the second is on
\* the first's track plus 1 when its clip time is less than 1000 ms after the
\* first's, and on track 1 when the gap is 1000 ms or more.
C1_TrackRule ==
  \A i, j \in 1..Len(trace) :
    Consecutive(i, j) =>
      trace[j].track = IF trace[j].clipTime - trace[i].clipTime < 1000
                         THEN trace[i].track + 1
                         ELSE 1

\* A session whose log shows a burst that climbed to track 3 and was then
\* ended by an event exactly 1000 ms later, on track 1.
C1_Witness ==
  /\ sessionActive
  /\ \E i, j \in 1..Len(trace) :
       /\ Consecutive(i, j)
       /\ trace[j].session = nSessions
       /\ trace[i].track = 3
       /\ trace[j].clipTime - trace[i].clipTime = 1000
       /\ trace[j].track = 1
       /\ Exists(files, currentFileName)
       /\ \E m \in 1..(Len(Content(files, currentFileName)) - 1) :
            /\ Content(files, currentFileName)[m] = LineOf(trace[i])
            /\ Content(files, currentFileName)[m + 1] = LineOf(trace[j])

\* Input k repeats input k - 1: the same button in the same session, flagged
\* as a repeat by the library, or, without the flag, less than 700 ms later.
RepeatInput(k) ==
  /\ k > 1
  /\ trace[k].session = trace[k - 1].session
  /\ trace[k].cmd = trace[k - 1].cmd
  /\ IF useRepeatFlag THEN trace[k].rep
      ELSE trace[k].at - trace[k - 1].at < 700

\* Input i is an initial press: it repeats nothing.
InitialPress(i) == ~RepeatInput(i) /\ ~trace[i].rep

\* C2: in a continuous hold of one button (an initial press followed by
\* repeat inputs of the same button) the first repeat is logged as the one
\* `_hold` event of the run and every later repeat is suppressed, under
\* either repeat-detection strategy.
C2_OneHoldPerRun ==
  \A i \in 1..Len(trace) : \A j \in (i + 1)..Len(trace) :
    (InitialPress(i) /\ \A k \in (i + 1)..j : RepeatInput(k)) =>
      /\ trace[i].name = ButtonName(trace[i].cmd)
      /\ trace[i + 1].name = ButtonName(trace[i].cmd) \o "_hold"
      /\ \A k \in (i + 2)..j : trace[k].name = ""

\* Input k has another identity than the input processed before it.
Switches(k) == k > 1 /\ trace[k].cmd # trace[k - 1].cmd

\* Input k became a plain event and left hold tracking reset.
PlainAndReset(k) ==
  trace[k].name = ButtonName(trace[k].cmd) /\ ~trace[k].held

\* C3, as stated: an input whose identity differs from the previously
\* processed input's is emitted as a plain event and resets hold tracking,
\* whatever the hold state and whether or not it carries a repeat indication.
C3_SwitchAlwaysPlain ==
  \A k \in 1..Len(trace) : Switches(k) => PlainAndReset(k)

\* C3, amended: an input whose identity differs from the previously processed
\* input's, and which does not carry the library's repeat flag, is emitted as
\* a plain event and resets hold tracking, whatever the hold state was.
C3_SwitchPlainUnlessFlagged ==
  \A k \in 1..Len(trace) :
    (Switches(k) /\ ~trace[k].rep) => PlainAndReset(k)

\* A hold had been reported when another button came in: it was logged as a
\* plain event, under the heuristic less than 700 ms after the hold event.
C3_Witness ==
  \E k \in 2..Len(trace) :
    /\ Switches(k)
    /\ trace[k - 1].held
    /\ trace[k - 1].name = "ok_hold"
    /\ trace[k].at - trace[k - 1].at < 700
    /\ ~useRepeatFlag
    /\ trace[k].name = "right"
    /\ ~holdLogged

\* The inputs of the example: code 25 at session time 0, again at 200 ms and
\* at 300 ms as repeats, and code 24 at 1800 ms, in the first session.
ExampleInputs ==
  /\ nSessions = 1
  /\ Len(trace) = 4
  /\ [k \in 1..4 |-> trace[k].cmd] = <<25, 25, 25, 24>>
  /\ [k \in 1..4 |-> trace[k].clipTime] = <<0, 200, 300, 1800>>
  /\ [k \in 1..4 |-> trace[k].rep] =
       <<FALSE, useRepeatFlag, useRepeatFlag, FALSE>>

\* C4: in a freshly started session the example's inputs produce exactly
\* three log lines: `ok` on track 1 at 0.000, `ok_hold` on track 2 at 0.200
\* and the other button on track 1 at 1.800; the third input produces none.
C4_Example ==
  ExampleInputs =>
    /\ Exists(files, currentFileName)
    /\ Content(files, currentFileName) =
         <<CommandStr(1, "ok", 0), CommandStr(2, "ok_hold", 200),
           CommandStr(1, "right", 1800)>>
    /\ trace[3].name = ""

(***************************************************************************)
(* Properties of the session lifecycle (SpecIR).                           *)
(***************************************************************************)
\* The machine waits for a session name: the next line loop() reads names a
\* session.
AwaitingName == pc = "loop" /\ irMode /\ variant \in {1, 3} /\ ~sessionActive

\* C5: between two iterations of loop(), in every variant, the session is
\* marked active exactly when a log file is designated (currentFileName is
\* non-empty).
C5_ActiveIffNamed ==
  pc = "loop" => (sessionActive <=> currentFileName # <<>>)

\* The step read a line that is empty after trimming.
ReadsEmpty(effects) ==
  \E i \in 1..Len(effects) :
    effects[i].op = "read" /\ Trim(effects[i].arg) = <<>>

\* C6: an empty line read while a session name is awaited leaves the machine
\* awaiting the name: no session starts and no log file is designated.
C6_EmptyNameIgnored ==
  [][(AwaitingName /\ ReadsEmpty(io')) =>
       (AwaitingName' /\ ~sessionActive' /\ currentFileName' = <<>>)]_vars

\* The answer the keep/discard prompt read in this step.
Answer(effects) == Trim(effects[1].arg)
Keeps(effects) == EqualsIgnoreCase(Answer(effects), YStr)

\* C7: at the end-of-session prompt the answer `y` leaves the storage, and so
\* the session's log file and its content, unchanged; any other answer
\* removes the session's log file and nothing else; in both cases the session
\* record is cleared (sessionActive false, no current log name).
C7_KeepOrDiscard ==
  [][pc = "confirm" =>
       /\ IF Keeps(io') THEN files' = files
          ELSE /\ ~Exists(files', currentFileName)
               /\ files' = SelectSeq(files, LAMBDA f : f.name # currentFileName)
       /\ ~sessionActive'
       /\ currentFileName' = <<>>]_vars

\* A session that logged an event was ended and kept: its file is in storage
\* with its line, and the session record is cleared.
C7_Witness ==
  /\ pc = "grace"
  /\ io = <<Read(YStr), Msg("File saved.")>>
  /\ ~sessionActive /\ currentFileName = <<>>
  /\ \E i \in 1..Len(files) : Len(files[i].content) > 0

\* The step read a line that says "menu".
ReadsMenu(effects) ==
  \E i \in 1..Len(effects) :
    effects[i].op = "read" /\ ToLower(Trim(effects[i].arg)) = MenuStr

\* C8: every keep/discard answer is followed by a grace window that starts at
\* the answer; a "menu" line read less than 3000 ms after its start leads to
\* mode selection; and the window always ends: the machine reaches mode
\* selection or awaits a session name again, with no further input needed.
C8_GraceWindow ==
  /\ [][(pc = "confirm" /\ ~ReadsMenu(io')) =>
          (pc' = "grace" /\ startTime' = now)]_vars
  /\ [][pc = "grace" =>
          /\ ReadsMenu(io') => (now - startTime < 3000 /\ pc' = "menu")
          /\ (~ReadsMenu(io') /\ now' - startTime < 3000) => pc' = "grace"
          /\ pc' \in {"grace", "menu", "loop"}
          /\ pc' = "loop" => (now - startTime >= 3000 /\ AwaitingName')]_vars
  /\ (pc = "grace") ~> (pc = "menu" \/ AwaitingName)

\* The grace window of an ended session ran its 3000 ms and the machine
\* prompts for a session name again.
C8_Witness ==
  /\ AwaitingName /\ awaitingSessionName
  /\ nSessions = 1
  /\ startTime > 0
  /\ now = startTime + 3000

\* C9, as stated: the line of every accepted event is first appended to the
\* session's log and then echoed, and both writes occur.
C9_AppendThenEcho ==
  \A i \in 1..Len(io) :
    io[i].op = "echo" =>
      \E j \in 1..(i - 1) :
        io[j].op = "append" /\ io[j].arg = <<currentFileName, io[i].arg>>

\* C9, amended: the line of every accepted event is first echoed and then
\* appended to the session's log; the echo always occurs, the append occurs
\* when the log can be opened, and a failure message follows the echo when
\* it cannot.  Nothing is appended that was not echoed just before.
C9_EchoThenAppend ==
  \A i \in 1..Len(io) :
    /\ io[i].op = "echo" =>
         /\ i < Len(io)
         /\ \/ io[i + 1] = Wrote(currentFileName, io[i].arg)
            \/ io[i + 1] = Msg("Failed to open file for writing")
    /\ io[i].op = "append" =>
         /\ i > 1
         /\ io[i - 1] = Echo(io[i].arg[2])

\* An event was echoed and then appended: its line ends the session's log.
C9_Witness ==
  /\ sessionActive
  /\ \E i \in 1..(Len(io) - 1) :
       /\ io[i].op = "echo"
       /\ io[i + 1] = Wrote(currentFileName, io[i].arg)
       /\ Exists(files, currentFileName)
       /\ Content(files, currentFileName)
            [Len(Content(files, currentFileName))] = io[i].arg

\* The step failed to open the session's log.
OpenFailed(effects) ==
  \E i \in 1..Len(effects) : effects[i] = Msg("Failed to open file for writing")

\* The step echoed a line before it reported the failure.
EchoedBeforeFailure(effects) ==
  \E i \in 1..Len(effects) : \E j \in 1..(i - 1) :
    /\ effects[i] = Msg("Failed to open file for writing")
    /\ effects[j].op = "echo"

\* The step only appended the line it had just echoed.
AppendsOnlyEchoed(effects) ==
  \A i \in 1..Len(effects) :
    effects[i].op = "append" =>
      (i > 1 /\ effects[i - 1] = Echo(effects[i].arg[2]))

\* C10: when the session's log cannot be opened for an accepted event, the
\* failure is reported, the line is still echoed, the storage is unchanged and
\* the session stays as the event leaves it (active, but for the press that
\* ends a session of variant 2); and no step ever appends a line other than
\* the one it has just echoed, so a dropped line is never written later.
C10_OpenFailure ==
  [][/\ OpenFailed(io') =>
          /\ EchoedBeforeFailure(io')
          /\ files' = files
          /\ sessionActive' \/ (variant = 2 /\ sessionActive)
          /\ variant # 2 => (sessionActive /\ currentFileName' = currentFileName)
     /\ AppendsOnlyEchoed(io')]_vars

\* The second event of a session whose log could not be opened either time:
\* echoed, reported, and no file in storage.
C10_Witness ==
  /\ sessionActive
  /\ Len(trace) = 2
  /\ trace[1].name # "" /\ trace[2].name # ""
  /\ io = <<Frame(trace[2].cmd, trace[2].rep), Echo(LineOf(trace[2])),
            Msg("Failed to open file for writing")>>
  /\ files = <<>>

(***************************************************************************)
(* File management.                                                        *)
(***************************************************************************)
\* The step is handleSerialCommand on a line that trims to the command.
FMReads(command) ==
  /\ pc = "loop" /\ currentMode = 2
  /\ io' # <<>> /\ io'[1].op = "read"
  /\ Trim(io'[1].arg) = command

\* C11: after the command "delete" with no argument the storage holds no
\* file, and a "list" issued next reports zero entries: fileCount becomes 0
\* and "No files found." is printed, whatever the storage held before, more
\* than MaxFiles files included.
C11_DeleteAllEmpties ==
  [][FMReads(DeleteStr) =>
       /\ files' = <<>>
       /\ CommandResult(ListStr)'.fileCount = 0
       /\ CommandResult(ListStr)'.io = <<Msg("No files found.")>>]_vars

\* The file number a "send <n>" or "delete <n>" command names; 0 when the
\* command is neither or the number is not numeric.
IsSendNumber(command) ==
  StartsWith(command, SendStr) /\ Substring(command, 5) # AllStr
IsDeleteNumber(command) == StartsWith(command, DeleteStr \o <<" ">>)
NumberOf(command) ==
  IF IsDeleteNumber(command) THEN ToInt(Trim(Substring(command, 7)))
  ELSE IF IsSendNumber(command) THEN ToInt(Substring(command, 5))
  ELSE 0

\* C12: "send <n>" and "delete <n>" with n outside 1..fileCount (a
\* non-numeric n parses as 0) print the invalid-file-number message and
\* change nothing: the storage, the fileList snapshot, fileCount, the log
\* base (in memory and persisted) and the mode stay as they were.
C12_InvalidIndexNoChange ==
  [][\A line \in AllFMLines :
       (/\ FMReads(Trim(line))
        /\ IsSendNumber(Trim(line)) \/ IsDeleteNumber(Trim(line))
        /\ NumberOf(Trim(line)) \notin 1..fileCount)
       => /\ Tail(io') = <<Msg("Invalid file number.")>>
          /\ UNCHANGED <<files, fileList, fileCount, logFileBase, prefs,
                         currentMode>>
          /\ pc' = "loop"]_vars

\* A file number above MaxFiles was refused while the storage holds more
\* files than the snapshot.
C12_Witness ==
  /\ currentMode = 2
  /\ io = <<Read(SendStr \o <<"5", "2">>), Msg("Invalid file number.")>>
  /\ fileCount = MaxFiles
  /\ Len(files) > MaxFiles

\* The command begins with one of the file management keywords.
IsKeywordCommand(command) ==
  \/ command \in {ListStr, DeleteStr, MenuStr}
  \/ StartsWith(command, DeleteStr \o <<" ">>)
  \/ StartsWith(command, SendStr)
  \/ StartsWith(command, SetbaseStr)

\* C13: the file management keywords are case-insensitive: a line that
\* differs from the lower-case form of a list, delete, send, setbase or menu
\* command only in letter case has the effect of the lower-case form on the
\* state and on the output.
C13_KeywordsAnyCase ==
  [][\A line \in AllFMLines :
       (/\ FMReads(Trim(line))
        /\ io'[1].arg = line
        /\ IsKeywordCommand(ToLower(Trim(line))))
       => LET lower == CommandResult(ToLower(line)) IN
          /\ pc' = lower.pc
          /\ Tail(io') = lower.io
          /\ fileList' = lower.fileList
          /\ fileCount' = lower.fileCount
          /\ logFileBase' = lower.logFileBase
          /\ prefs' = lower.prefs
          /\ files' = lower.files]_vars

\* The base a "setbase <name>" command names, trimmed.
BaseOf(command) == Trim(Substring(command, 8))
IsSetbase(command) == StartsWith(command, SetbaseStr) /\ Len(BaseOf(command)) > 0

\* The step starts a session.
StartsSession == ~sessionActive /\ sessionActive'

\* C14: "setbase <name>" stores <name> at once as the persisted logBase and as
\* the log base in memory; it changes the log file name of no session started
\* before it (the current log name and the stored files stay as they are);
\* and the log file name of every session started after a setbase is derived
\* from the base then in force.
C14_SetbaseForLaterSessions ==
  [][/\ \A line \in ModeLines \cup AllFMLines :
          (FMReads(Trim(line)) /\ IsSetbase(Trim(line)))
          => /\ logFileBase' = BaseOf(Trim(line))
             /\ prefs'.logBase = BaseOf(Trim(line))
             /\ UNCHANGED <<currentFileName, files>>
     /\ (StartsSession /\ prefs.logBase # <<>>)
          => StartsWith(currentFileName', logFileBase)]_vars

(***************************************************************************)
(* Routing of button events.                                               *)
(***************************************************************************)
\* The step echoed or appended a command line.
LogsLine(effects) ==
  \E i \in 1..Len(effects) : effects[i].op \in {"echo", "append"}

\* The step handled a decoded IR frame.
HandlesFrame(effects) == effects # <<>> /\ effects[1].op = "frame"

\* C15: a command line is appended or echoed, and the allocator state
\* (lastClipTime, currentTrackIndex) is changed by a button event, only while
\* a session is active; a button input that arrives while no session is
\* active never produces a log line.
C15_LogsOnlyInSession ==
  [][/\ LogsLine(io') => sessionActive
     /\ (HandlesFrame(io') /\ trackVars' # trackVars) => sessionActive
     /\ (HandlesFrame(io') /\ ~sessionActive) => ~LogsLine(io')]_vars

\* C15, amended: a command line is appended or echoed only by a button event
\* handled while a session is active or by the power press that starts a
\* session in variant 2, which is logged as that session's first line; every
\* other button input arriving while no session is active produces no log
\* line, and a button event changes the allocator state only while a session
\* is active.
C15_LogsInOrAtStartOfSession ==
  [][/\ LogsLine(io') => HandlesFrame(io')
     /\ (LogsLine(io') /\ ~sessionActive)
          => /\ variant = 2
             /\ io'[1].arg[1] = PowerCode
             /\ sessionActive'
             /\ io'[4] = Echo(CommandStr(1, "power", 0))
             /\ \/ files' = files
                \/ files' = AppendLine(files, currentFileName',
                                       CommandStr(1, "power", 0))
     /\ (HandlesFrame(io') /\ trackVars' # trackVars) => sessionActive]_vars

\* Variant 2 has ignored a known button pressed while no session was active.
C15_Witness ==
  /\ variant = 2
  /\ ~sessionActive
  /\ Len(io) = 3
  /\ io[1].op = "frame" /\ io[1].arg[1] = 24
  /\ io[3] = Msg("Ignoring command outside an active session.")
  /\ lastButton = "right"

\* The lookup table of handleButtonPress.
KnownCodes == {25, 24, 22, 23, 21, 71, 16, 72, 50}
Identity ==
  [c \in KnownCodes |->
     CASE c = 25 -> "ok" [] c = 24 -> "right" [] c = 22 -> "down"
       [] c = 23 -> "left" [] c = 21 -> "up" [] c = 71 -> "home"
       [] c = 16 -> "settings" [] c = 72 -> "back" [] c = 50 -> "tv"]

\* The step called handleButtonPress of variant 1 or 3 with the code.
Handles(cmd) ==
  /\ variant \in {1, 3} /\ sessionActive
  /\ HandlesFrame(io') /\ io'[1].arg[1] = cmd
  /\ ~(variant = 1 /\ cmd = PowerCode)

\* C16: for every raw code that is not in the lookup table handleButtonPress
\* produces no event and no output and leaves the hold detector (lastButton,
\* lastButtonTimestamp, holdLogged), the allocator (lastClipTime,
\* currentTrackIndex) and the stored log unchanged; every code in the table
\* maps to its fixed identity, and an event logged for it carries that
\* identity, plain or with the hold suffix.
C16_UnknownCodeDropped ==
  [][/\ \A cmd \in Codes \ KnownCodes :
          Handles(cmd) => /\ Len(io') = 1
                          /\ UNCHANGED <<holdVars, trackVars, files, trace>>
     /\ \A cmd \in KnownCodes :
          /\ ButtonName(cmd) = Identity[cmd]
          /\ (Handles(cmd) /\ LogsLine(io'))
               => /\ io'[2].op = "echo"
                  /\ io'[2].arg.clip \in {Identity[cmd] \o ".mp4",
                                          Identity[cmd] \o "_hold.mp4"}]_vars

\* An unknown code was handled in a session whose hold detector holds a button
\* and whose log holds a line.
C16_Witness ==
  /\ variant \in {1, 3} /\ sessionActive
  /\ io = <<Frame(99, FALSE)>>
  /\ lastButton = "ok"
  /\ Exists(files, currentFileName)

(***************************************************************************)
(* Modes.                                                                  *)
(***************************************************************************)
\* C17: file management and the session manager exclude each other: in every
\* state in which file management commands are dispatched (irMode false,
\* currentMode 2) no session is active and no session name is awaited; and
\* the menu is only reached, from IR mode too, when no session is active.
C17_ModesExclusive ==
  /\ currentMode = 2 => (~sessionActive /\ ~awaitingSessionName)
  /\ pc = "menu" => (~sessionActive /\ ~awaitingSessionName)

\* File management mode was entered after a session that was kept.
C17_Witness ==
  /\ pc = "loop" /\ currentMode = 2
  /\ nSessions > 0
  /\ fileCount > 0

\* C20: when mounting the storage fails at boot the failure is reported and
\* the firmware halts: the menu is not shown, no mode is entered, and no
\* button or control-channel input is processed afterwards (no step is taken
\* from the halted state).
C20_MountFailureHalts ==
  [][/\ pc # "halt"
     /\ pc' = "halt" => pc = "boot"
     /\ (pc = "boot" /\ io'[1] = Msg("Failed to mount SPIFFS"))
          => /\ pc' = "halt"
             /\ Len(io') = 1
             /\ UNCHANGED <<currentMode, sessionVars, holdVars, trackVars,
                            fmVars, files, trace, nFrames, nSessions>>]_vars

\* The firmware has halted on a failed mount.
C20_Witness ==
  /\ pc = "halt"
  /\ io = <<Msg("Failed to mount SPIFFS")>>
  /\ currentMode = (IF variant = 3 THEN 0 ELSE 1)

(***************************************************************************)
(* The session log.                                                        *)
(***************************************************************************)
\* The line the step echoed.
EchoedLine(effects) ==
  effects[CHOOSE i \in 1..Len(effects) : effects[i].op = "echo"].arg

\* The step handled a frame and emitted an event for it.
Accepted(effects) ==
  HandlesFrame(effects) /\ \E i \in 1..Len(effects) : effects[i].op = "echo"

\* Every file of fs is in fs2 and its lines are the first lines there.
KeepsLines(fs, fs2) ==
  \A i \in 1..Len(fs) :
    /\ Exists(fs2, fs[i].name)
    /\ LET lines == Content(fs2, fs[i].name) IN
       /\ Len(lines) >= Len(fs[i].content)
       /\ SubSeq(lines, 1, Len(fs[i].content)) = fs[i].content

\* C18: while a session records, its log is append-only: each accepted event
\* appends exactly one line at the end of the session's log, a suppressed or
\* unknown input appends nothing, and no button event changes or removes a
\* line that is in the log.
C18_AppendOnly ==
  [][HandlesFrame(io') =>
       /\ KeepsLines(files, files')
       /\ IF Accepted(io')
            THEN files' = AppendLine(files, currentFileName', EchoedLine(io'))
            ELSE files' = files]_vars

\* C18, amended: each accepted event appends exactly one line at the end of
\* the session's log when the log can be opened for append, and nothing when
\* it cannot (the failure is reported); a suppressed or unknown input appends
\* nothing, and no button event changes or removes a line that is in the log.
C18_AppendOnlyWhenOpened ==
  [][HandlesFrame(io') =>
       /\ KeepsLines(files, files')
       /\ IF Accepted(io')
            THEN \/ /\ files' = AppendLine(files, currentFileName', EchoedLine(io'))
                    /\ \E i \in 1..Len(io') : io'[i].op = "append"
                 \/ /\ files' = files
                    /\ \E i \in 1..Len(io') :
                         /\ io'[i].op = "msg"
                         /\ io'[i].arg = "Failed to open file for writing"
            ELSE files' = files]_vars

\* A second event was appended after the first line of the session's log.
C18_Witness ==
  /\ sessionActive
  /\ Exists(files, currentFileName)
  /\ Len(Content(files, currentFileName)) = 2
  /\ Accepted(io)
  /\ Content(files, currentFileName)[2] = EchoedLine(io)

(***************************************************************************)
(* File transfer.                                                          *)
(***************************************************************************)
\* The START and END markers of single-file transfers, in output order.
Markers(out) ==
  SelectSeq(out, LAMBDA e : e.op \in {"START_FILE_TRANSFER", "END_FILE_TRANSFER"})

\* START and END alternate, and each END closes the START before it.
Paired(m) ==
  /\ Len(m) % 2 = 0
  /\ \A k \in 1..Len(m) :
       IF k % 2 = 1 THEN m[k].op = "START_FILE_TRANSFER"
       ELSE m[k].op = "END_FILE_TRANSFER" /\ m[k].arg = m[k - 1].arg

\* The files whose transfer was started, in output order.
Started(m) == [k \in 1..(Len(m) \div 2) |-> m[2 * k - 1].arg]

\* The snapshot entries that can be opened for reading, in index order.
Readable == SelectSeq(fileList, LAMBDA name : Exists(files, name))

\* The failure messages in the output.
ReadFailures(out) ==
  SelectSeq(out, LAMBDA e : e.op = "msg" /\ e.arg = "Failed to open file for reading")

\* The file contents sent, in output order.
DataSent(out) == SelectSeq(out, LAMBDA e : e.op = "data")

\* C19: "send all" with a non-empty snapshot prints START_ALL_FILE_TRANSFER,
\* then one single-file transfer per snapshot entry in index order, then
\* END_ALL_FILE_TRANSFER; every START_FILE_TRANSFER:<name> is followed by its
\* END_FILE_TRANSFER before any other START marker; and an entry that cannot
\* be opened for reading gives a failure message and neither marker.
C19_SendAllFraming ==
  [][(FMReads(SendStr \o AllStr) /\ fileCount > 0) =>
       LET out == Tail(io') IN
       /\ out[1] = Msg("START_ALL_FILE_TRANSFER")
       /\ out[Len(out)] = Msg("END_ALL_FILE_TRANSFER")
       /\ Paired(Markers(out))
       /\ Started(Markers(out)) = Readable
       /\ Len(ReadFailures(out)) = fileCount - Len(Readable)
       /\ Len(DataSent(out)) = Len(Readable)
       /\ \A k \in 1..Len(Readable) :
            DataSent(out)[k].arg = Content(files, Readable[k])
       /\ UNCHANGED <<files, fmVars>>]_vars

\* "send all" has sent a file of the snapshot and failed on another, which
\* is no longer in storage.
C19_Witness ==
  /\ currentMode = 2
  /\ Len(io) > 2
  /\ io[1] = Read(SendStr \o AllStr)
  /\ io[2] = Msg("START_ALL_FILE_TRANSFER")
  /\ Len(ReadFailures(io)) > 0
  /\ Len(Markers(io)) > 0

(***************************************************************************)
(* Session start (variants 1 and 3).                                       *)
(***************************************************************************)
\* The line a step read from Serial.
LineRead(effects) ==
  LET i == CHOOSE i \in 1..Len(effects) : effects[i].op = "read"
  IN effects[i].arg

Slashed(name) ==
  IF name # <<>> /\ Head(name) = "/" THEN name ELSE <<"/">> \o name

\* C21: every step that takes the program from waiting for a name to
\* recording sets the session's start time to the current time, lastClipTime
\* to 0 and currentTrackIndex to 1, whatever an earlier session left in them,
\* and names the session by the trimmed line with "/" put before it when it
\* does not start with one, followed by ".txt".
C21_SessionStartResets ==
  [][(~sessionActive /\ sessionActive') =>
       /\ timestampStart' = now
       /\ lastClipTime' = 0
       /\ currentTrackIndex' = 1
       /\ currentFileName' = Slashed(Trim(LineRead(io'))) \o TxtStr
       /\ Head(currentFileName') = "/"]_vars

\* A second session has just been started under the typed name "a": the
\* earlier session's start tick 0, clip time 500 and track 2 are gone.
C21_Witness ==
  /\ sessionActive /\ nSessions = 1 /\ nFrames = 0
  /\ \E i \in 1..Len(io) : io[i] = Read(<<"a">>)
  /\ currentFileName = FirstFile
  /\ timestampStart = 2 * FrameDelayMs + GraceMs
  /\ lastClipTime = 0
  /\ currentTrackIndex = 1
  /\ lastButton = FirstHold

\* C22: from the moment a session of variant 1 or 3 is active until the
\* keep/discard answer is taken, storage holds a file with the session's
\* name, also when no event has been accepted yet.
C22_LogExistsDuringSession ==
  (variant \in {1, 3} /\ sessionActive) => Exists(files, currentFileName)

(***************************************************************************)
(* The hold detector's record of the last input.                           *)
(***************************************************************************)
\* C23: after every call of handleButtonPress with a code of the table, the
\* calls it suppresses included, lastButton is the plain identity of that
\* code and lastButtonTimestamp is the time of that call.
C23_LastInputRecorded ==
  [][\A cmd \in KnownCodes :
       Handles(cmd) => /\ lastButton' = Identity[cmd]
                       /\ lastButtonTimestamp' = now]_vars

(***************************************************************************)
(* The track allocator and the hold detector together.                     *)
(***************************************************************************)
\* The accepted inputs of the current session.
AcceptedInSession == {k \in InSession : trace[k].name # ""}

LastOf(S) == CHOOSE k \in S : \A j \in S : j <= k

\* C24: the track allocator is evaluated exactly once for an accepted event
\* and not at all for a suppressed input: a suppressed input leaves
\* lastClipTime and currentTrackIndex as they were, and an accepted event at
\* session time t gets the track after the current one when t is less than
\* 1000 ms after lastClipTime and track 1 otherwise, and sets lastClipTime to
\* t; lastClipTime is always the time of the session's last accepted event
\* (0 when there is none), so that the gap is measured from that event.
C24_AllocatorOncePerAccepted ==
  [][/\ \A cmd \in KnownCodes :
          Handles(cmd) =>
            LET t == UL(now - timestampStart)
            IN IF LogsLine(io')
                 THEN /\ lastClipTime' = t
                      /\ currentTrackIndex' =
                           (IF UL(t - lastClipTime) < TrackGapMs
                              THEN currentTrackIndex + 1 ELSE 1)
                      /\ io'[2] = Echo(CommandStr(currentTrackIndex',
                                                  lastButton', t))
                 ELSE UNCHANGED trackVars
     /\ lastClipTime' = (IF AcceptedInSession' = {} THEN 0
                         ELSE trace'[LastOf(AcceptedInSession')].clipTime)]_vars

\* An event was accepted on track 1 less than a second after a suppressed
\* input and at least a second after the accepted event before that.
C24_Witness ==
  /\ Len(trace) >= 3
  /\ LET n == Len(trace)
     IN /\ trace[n - 2].session = nSessions
        /\ trace[n - 2].name # ""
        /\ trace[n - 1].name = ""
        /\ trace[n].name # ""
        /\ trace[n].track = 1
        /\ trace[n].clipTime - trace[n - 1].clipTime < TrackGapMs
        /\ trace[n].clipTime - trace[n - 2].clipTime >= TrackGapMs
        /\ lastClipTime = trace[n].clipTime
        /\ currentTrackIndex = 1

(***************************************************************************)
(* The end of a session (variants 1 and 3).                                *)
(***************************************************************************)
\* A session of variant 1 or 3 is recording.
Recording == variant \in {1, 3} /\ sessionActive /\ pc = "loop"

\* The step is the explicit end trigger: variant 1 decoded the code 33,
\* variant 3 read a line that is "end" after trimming, in any case.
EndTrigger ==
  /\ io' # <<>>
  /\ \/ variant = 1 /\ io'[1].op = "frame" /\ io'[1].arg[1] = 33
     \/ variant = 3 /\ io'[1].op = "read"
                    /\ ToLower(Trim(io'[1].arg)) = <<"e", "n", "d">>

\* C25: a recording session is left only by the end trigger, and by every
\* end trigger; no other frame or line, "menu" included, makes sessionActive
\* false, which only the keep/discard answer after the trigger does.  The
\* trigger itself, and every step from it until the next session starts,
\* logs nothing and leaves the hold detector and the track allocator as they
\* are.
C25_OnlyEndTriggerEnds ==
  [][/\ Recording => /\ (pc' # "loop") = EndTrigger
                     /\ sessionActive'
                     /\ EndTrigger => pc' = "confirm"
     /\ (variant \in {1, 3} /\ sessionActive /\ ~sessionActive')
          => pc = "confirm"
     /\ (Recording /\ EndTrigger)
          => UNCHANGED <<holdVars, trackVars, trace, files>> /\ ~LogsLine(io')
     /\ (variant \in {1, 3} /\ ~Recording /\ ~sessionActive')
          => UNCHANGED <<holdVars, trackVars, trace>> /\ ~LogsLine(io')
     /\ (variant \in {1, 3} /\ ~Recording /\ sessionActive')
          => UNCHANGED <<holdVars, trace, files>> /\ ~LogsLine(io')]_vars

\* Variant 3 read "menu" while recording and the session goes on.
C25_Witness ==
  /\ variant = 3 /\ sessionActive /\ pc = "loop"
  /\ io = <<Read(MenuStr)>>
  /\ trace # <<>>

(***************************************************************************)
(* The snapshot of the listing.                                            *)
(***************************************************************************)
\* C26: in file management mode, after any sequence of commands, every entry
\* fileList[0..fileCount-1] of the snapshot names a file that is in storage;
\* after "delete" the snapshot is empty.
C26_SnapshotNamesStoredFiles ==
  (currentMode = 2 /\ pc = "loop")
    => /\ fileCount <= Len(fileList)
       /\ \A i \in 1..fileCount : Exists(files, fileList[i])

(***************************************************************************)
(* The keep/discard answer.                                                *)
(***************************************************************************)
\* C27: the keep/discard decision is taken from a line received after the
\* end-of-session prompt: when the answer is read, no line that arrived
\* while the session was recording is in the receive buffer.
C27_AnswerTypedAfterPrompt ==
  [][(pc = "confirm" /\ pc' # "confirm") => pending = <<>>]_vars

(***************************************************************************)
(* Files of earlier sessions.                                              *)
(***************************************************************************)
\* The lines the current session has logged.
SessionLog ==
  {CommandStr(trace[k].track, trace[k].name, trace[k].clipTime) :
     k \in AcceptedInSession}

\* C28: discarding a session removes only data written during that session:
\* a file that a step of a session (its start, an event, the discard)
\* removes or changes holds nothing but lines logged in that session, so a
\* file that was in storage before the session started is neither removed
\* nor changed, whatever name the session is given.
C28_EarlierFilesUntouched ==
  [][\A i \in 1..Len(files) :
       (\A j \in 1..Len(files') : files'[j] # files[i])
         => \A k \in 1..Len(files[i].content) :
              files[i].content[k] \in SessionLog]_vars

(***************************************************************************)
(* The hold detector across sessions.                                      *)
(***************************************************************************)
\* C29: the first input with a known code that handleButtonPress processes
\* after a session start produces a log line, whatever the hold detector
\* holds from the session before.
C29_FirstInputLogged ==
  [][\A cmd \in KnownCodes :
       (Handles(cmd) /\ InSession = {}) => LogsLine(io')]_vars

(***************************************************************************)
(* The single-button variant.                                              *)
(***************************************************************************)
\* The storage after logCommand(line) for the file: the line appended, or, if
\* the open may fail, the storage as it was.
Logged(name, line, mayFail) ==
  \/ files' = AppendLine(files, name, line)
  \/ mayFail /\ files' = files
              /\ \E i \in 1..Len(io') :
                   io'[i] = Msg("Failed to open file for writing")

\* What a frame handled by variant 2 does to the session.
PowerToggles(mayFail) ==
  (variant = 2 /\ HandlesFrame(io')) =>
    LET cmd == io'[1].arg[1]
        name == logFileBase \o DecStr(actionCount) \o TxtStr
    IN /\ (cmd = 33 /\ ~sessionActive)
            => /\ sessionActive'
               /\ currentFileName' = name
               /\ actionCount' = actionCount
               /\ io'[4] = Echo(CommandStr(1, "power", 0))
               /\ Logged(name, CommandStr(1, "power", 0), mayFail)
       /\ (cmd = 33 /\ sessionActive)
            => /\ ~sessionActive'
               /\ currentFileName' = currentFileName
               /\ actionCount' = actionCount + 1
               /\ io'[3] = Echo(CommandStr(1, "power",
                                           UL(now - timestampStart)))
               /\ Logged(currentFileName,
                         CommandStr(1, "power", UL(now - timestampStart)),
                         mayFail)
       /\ cmd # 33
            => /\ UNCHANGED <<sessionActive, currentFileName, actionCount>>
               /\ ~sessionActive => files' = files /\ ~LogsLine(io')

\* C30 as stated: in the single-button variant every processed power frame
\* (code 33), repeat or not, toggles the session: with no session active it
\* starts one named logFileBase + actionCount + ".txt" and the press is in
\* that file afterwards; with a session active the press is in the session's
\* file afterwards, the session is inactive and actionCount is one more;
\* other events are logged only while a session is active.
C30_PowerToggles == [][PowerToggles(FALSE)]_vars

\* C30, amended: as C30_PowerToggles, where the press is appended to the
\* file when the file can be opened for append, and is echoed and reported as
\* not written when it cannot.
C30_PowerTogglesWhenOpened == [][PowerToggles(TRUE)]_vars

\* A repeat frame of the power code has ended the session that the power
\* press before it started: the log of that session holds both presses.
C30_Witness ==
  /\ variant = 2 /\ ~sessionActive /\ actionCount = 1
  /\ io # <<>> /\ io[1] = Frame(33, TRUE)
  /\ Exists(files, DefaultLogBase \o <<"0">> \o TxtStr)
  /\ Len(Content(files, DefaultLogBase \o <<"0">> \o TxtStr)) = 2

====
